---- MODULE Spec2Model ----
(***************************************************************************)
(* A model of quart-schema's conversion layer (conversion.py) and of the   *)
(* extension object (extension.py): model_dump, model_load, model_schema,  *)
(* convert_headers, convert_response_return_value, the websocket mixin and *)
(* the openapi document assembly.                                          *)
(*                                                                         *)
(* Python values are records [tag, cls, d, n]; dictionary keys are         *)
(* sequences of one-character strings so that the key casing functions are *)
(* computed character by character; scalar leaves are tokens whose first   *)
(* character gives the JSON type ("s:bob" a string, "i:2" an integer).     *)
(***************************************************************************)
EXTENDS Integers, Sequences, FiniteSets, TLC

\* ------------------------------------------------------------------ bounds

\* Longest url_map the openapi specification registers.
MaxRules == 2
\* Longest documentation string (in characters) a handler carries.
MaxDocLen == 2
\* Most entries of the wire headers handed to convert_headers.
MaxHeaders == 2

\* ----------------------------------------------------------------- strings

LowerChars == <<"a", "b", "c", "d", "e", "f", "g", "h", "i", "j", "k", "l", "m",
                "n", "o", "p", "q", "r", "s", "t", "u", "v", "w", "x", "y", "z">>
UpperChars == <<"A", "B", "C", "D", "E", "F", "G", "H", "I", "J", "K", "L", "M",
                "N", "O", "P", "Q", "R", "S", "T", "U", "V", "W", "X", "Y", "Z">>

Range(f) == {f[i] : i \in DOMAIN f}

IsUpperChar(c) == c \in Range(UpperChars)
IsLowerChar(c) == c \in Range(LowerChars)
IsSepChar(c) == c \in {"-", "_"}

CharIndex(tbl, c) == CHOOSE i \in DOMAIN tbl : tbl[i] = c

\* str.lower / str.upper on one character
LowerChar(c) == IF IsUpperChar(c) THEN LowerChars[CharIndex(UpperChars, c)] ELSE c
UpperChar(c) == IF IsLowerChar(c) THEN UpperChars[CharIndex(LowerChars, c)] ELSE c

\* str.lower()
StrLower(s) == [i \in DOMAIN s |-> LowerChar(s[i])]

\* str.isupper(): at least one cased character and no lower-case one
StrIsUpper(s) ==
    /\ \E i \in DOMAIN s : IsUpperChar(s[i])
    /\ \A i \in DOMAIN s : ~IsLowerChar(s[i])

\* humps.dekebabize on a string: s.replace("-", "_")
Dekebabize(s) == [i \in DOMAIN s |-> IF s[i] = "-" THEN "_" ELSE s[i]]

\* re.sub of humps' UNDERSCORE_RE, (?<=[^\-_])[\-_]+[^\-_] : every run of
\* separators that follows a non-separator and is followed by a
\* non-separator c is replaced, with c, by repl(c).  The scan is left to
\* right and non-overlapping, as re.sub is.  i is the position examined and
\* prev tells whether the character before i exists and is not a separator.
RECURSIVE RunEnd(_, _)
RunEnd(s, i) == IF i <= Len(s) /\ IsSepChar(s[i]) THEN RunEnd(s, i + 1) ELSE i

RECURSIVE SubCamel(_, _, _)
SubCamel(s, i, prev) ==
    IF i > Len(s) THEN <<>>
    ELSE IF IsSepChar(s[i]) /\ prev /\ RunEnd(s, i) <= Len(s)
         THEN <<UpperChar(s[RunEnd(s, i)])>> \o SubCamel(s, RunEnd(s, i) + 1, TRUE)
         ELSE <<s[i]>> \o SubCamel(s, i + 1, ~IsSepChar(s[i]))

RECURSIVE SubKebab(_, _, _)
SubKebab(s, i, prev) ==
    IF i > Len(s) THEN <<>>
    ELSE IF IsSepChar(s[i]) /\ prev /\ RunEnd(s, i) <= Len(s)
         THEN <<"-", s[RunEnd(s, i)]>> \o SubKebab(s, RunEnd(s, i) + 1, TRUE)
         ELSE <<s[i]>> \o SubKebab(s, i + 1, ~IsSepChar(s[i]))

\* humps.camelize on a string
CamelizeStr(s) ==
    IF StrIsUpper(s) THEN s
    ELSE LET t == IF Len(s) # 0 /\ ~StrIsUpper(SubSeq(s, 1, 2))
                  THEN <<LowerChar(s[1])>> \o Tail(s)
                  ELSE s
         IN SubCamel(t, 1, FALSE)

\* humps.pascalize on a string: the first character and every character
\* after a run of separators upper-cased, the separators removed
PascalizeStr(s) ==
    IF StrIsUpper(s) THEN s
    ELSE LET t == SubCamel(s, 1, FALSE)
         IN IF Len(t) # 0 THEN <<UpperChar(t[1])>> \o Tail(t) ELSE t

\* humps._separate_words: words split before every upper-case letter that
\* follows another character, joined by sep
RECURSIVE SeparateWords(_, _, _)
SeparateWords(s, i, sep) ==
    IF i > Len(s) THEN <<>>
    ELSE IF i > 1 /\ IsUpperChar(s[i]) /\ ~IsSepChar(s[i - 1]) /\ ~IsUpperChar(s[i - 1])
         THEN <<sep, s[i]>> \o SeparateWords(s, i + 1, sep)
         ELSE <<s[i]>> \o SeparateWords(s, i + 1, sep)

\* humps.kebabize on a string
KebabizeStr(s) ==
    IF ~StrIsUpper(s) /\ (s = CamelizeStr(s) \/ s = PascalizeStr(s))
    THEN StrLower(SeparateWords(s, 1, "-"))
    ELSE SubKebab(s, 1, FALSE)

\* humps.decamelize on a string
DecamelizeStr(s) ==
    IF StrIsUpper(s) THEN s ELSE StrLower(SeparateWords(s, 1, "_"))

\* humps._process_keys over a mapping, once per casing function: every key
\* rewritten, the values kept
CamelizeKeys(d) ==
    [k2 \in {CamelizeStr(k) : k \in DOMAIN d} |->
        d[CHOOSE k \in DOMAIN d : CamelizeStr(k) = k2]]
KebabizeKeys(d) ==
    [k2 \in {KebabizeStr(k) : k \in DOMAIN d} |->
        d[CHOOSE k \in DOMAIN d : KebabizeStr(k) = k2]]
DecamelizeKeys(d) ==
    [k2 \in {DecamelizeStr(k) : k \in DOMAIN d} |->
        d[CHOOSE k \in DOMAIN d : DecamelizeStr(k) = k2]]

\* ----------------------------------------------------------- Python values

K_name == <<"n", "a", "m", "e">>
K_age == <<"a", "g", "e">>
K_fullName == <<"f", "u", "l", "l", "N", "a", "m", "e">>
K_x_info == <<"x", "_", "i", "n", "f", "o">>
K_X_Info == <<"X", "-", "I", "n", "f", "o">>
K_x_info_kebab == <<"x", "-", "i", "n", "f", "o">>
K_Other == <<"O", "t", "h", "e", "r">>

EmptyDict == <<>>

PyNone == [tag |-> "none", cls |-> "", d |-> EmptyDict, n |-> 0]
PyInt(i) == [tag |-> "int", cls |-> "", d |-> EmptyDict, n |-> i]
PyStr == [tag |-> "str", cls |-> "", d |-> EmptyDict, n |-> 0]
PyDict(d) == [tag |-> "dict", cls |-> "", d |-> d, n |-> 0]
\* an instance of class c whose attributes are d (keyed by field name)
PyObj(c, d) == [tag |-> "object", cls |-> c, d |-> d, n |-> 0]

\* what a call did: it returned val, or it raised an exception of class exc
\* constructed from cause (exception_class(error) keeps the error it wraps)
Return(v) == [kind |-> "return", val |-> v, exc |-> "", cause |-> ""]
Raise(e, c) == [kind |-> "raise", val |-> PyNone, exc |-> e, cause |-> c]
NotCalled == [kind |-> "pending", val |-> PyNone, exc |-> "", cause |-> ""]

\* scalar leaves
StrTokens == {"s:bob", "s:two", "s:2", "s:ABC", "s:ABC,DEF", "s:DEF", "s:1"}
IntTokens == {"i:2", "i:3"}
\* the integer a numeric string is read as by a lax (non-strict) conversion
LaxInt(tok) == IF tok = "s:2" THEN "i:2" ELSE tok

\* ----------------------------------------------------------- model classes

Field(nm, al, ty, req) == [name |-> nm, alias |-> al, type |-> ty, required |-> req]

\* name: str, age: Optional[int] = None, as the Details classes the tests load
DetailsFields == <<Field(K_name, K_name, "str", TRUE), Field(K_age, K_age, "optint", FALSE)>>
\* the same with name declared under the alias fullName
AliasFields == <<Field(K_name, K_fullName, "str", TRUE), Field(K_age, K_age, "optint", FALSE)>>
\* x_info: str, as the Headers classes of the tests
HeadersFields == <<Field(K_x_info, K_x_info, "str", TRUE)>>

\* Plain is a class of no model kind
ClassNames == {"ADetails", "DCDetails", "MDetails", "PyDetails", "PyDCDetails",
               "PyAliasDetails", "AHeaders", "DCHeaders", "MHeaders", "PyHeaders",
               "PyDCHeaders", "Plain"}

Kind(c) ==
    CASE c \in {"ADetails", "AHeaders"} -> "attrs"
      [] c \in {"DCDetails", "DCHeaders"} -> "dataclass"
      [] c \in {"MDetails", "MHeaders"} -> "struct"
      [] c \in {"PyDetails", "PyHeaders", "PyAliasDetails"} -> "basemodel"
      [] c \in {"PyDCDetails", "PyDCHeaders"} -> "pydantic_dataclass"
      [] OTHER -> "other"

Fields(c) ==
    CASE c \in {"ADetails", "DCDetails", "MDetails", "PyDetails", "PyDCDetails"} -> DetailsFields
      [] c = "PyAliasDetails" -> AliasFields
      [] c \in {"AHeaders", "DCHeaders", "MHeaders", "PyHeaders", "PyDCHeaders"} -> HeadersFields
      [] OTHER -> <<>>

FieldNames(c) == {Fields(c)[i].name : i \in DOMAIN Fields(c)}
HasAlias(c) == \E i \in DOMAIN Fields(c) : Fields(c)[i].alias # Fields(c)[i].name


\* -------------------------------------------------------------------- state

VARIABLES
    PYDANTIC_INSTALLED,   \* conversion.py: set by the first import block
    MSGSPEC_INSTALLED,    \* conversion.py: set by the second import block
    instance_is_pydc,     \* what is_pydantic_dataclass answers for an instance
    config,               \* current_app.config, the three QUART_SCHEMA_ keys
    call,                 \* the operation invoked and its arguments
    ret,                  \* what the invocation returned or raised
    url_map,              \* app.url_map with app.view_functions, in rule order
    requests              \* the requests for openapi_path and their responses

vars == <<PYDANTIC_INSTALLED, MSGSPEC_INSTALLED, instance_is_pydc, config, call, ret, url_map,
          requests>>

Preferences == {"unset", "pydantic", "msgspec"}

\* the exception classes callers hand in
ExceptionClasses == {"RequestSchemaValidationError", "ResponseSchemaValidationError"}

\* the classes of an exception's MRO that an except clause can name
ExcBases(e) ==
    CASE e = "PydanticValidationError" -> {"PydanticValidationError", "ValueError", "Exception"}
      [] e = "MsgSpecValidationError" -> {"MsgSpecValidationError", "Exception"}
      [] OTHER -> {e, "Exception"}

Caught(e, handlers) == ExcBases(e) \cap handlers # {}

\* a class of this kind can be defined only where its library is importable
ClassDefinable(c) ==
    CASE Kind(c) \in {"basemodel", "pydantic_dataclass"} -> PYDANTIC_INSTALLED
      [] Kind(c) = "struct" -> MSGSPEC_INSTALLED
      [] OTHER -> TRUE

\* ------------------------------------------------ the imported predicates

\* on a class; the stub answers False
is_pydantic_dataclass(c) == PYDANTIC_INSTALLED /\ Kind(c) = "pydantic_dataclass"
\* issubclass(c, BaseModel); no class derives from the stub
issubclass_BaseModel(c) == PYDANTIC_INSTALLED /\ Kind(c) = "basemodel"
\* issubclass(c, Struct); no class derives from the stub
issubclass_Struct(c) == MSGSPEC_INSTALLED /\ Kind(c) = "struct"
\* attrs.has; the stub answers False (attrs is imported with msgspec)
is_attrs(c) == MSGSPEC_INSTALLED /\ Kind(c) = "attrs"
\* dataclasses.is_dataclass: a pydantic dataclass is a dataclass too
is_dataclass(c) == Kind(c) \in {"dataclass", "pydantic_dataclass"}

\* ------------------------------------------------------------ the backends

IsStrToken(t) == t \notin IntTokens \cup {"none"}

\* one field read from the mapping d under key: the token, or "ERR"
ReadField(f, d, key) ==
    IF key \notin DOMAIN d
    THEN IF f.required THEN "ERR" ELSE "none"
    ELSE IF f.type = "str"
         THEN IF IsStrToken(d[key]) THEN d[key] ELSE "ERR"
         ELSE IF d[key] \in IntTokens \cup {"none"} THEN d[key]
              ELSE IF LaxInt(d[key]) \in IntTokens THEN LaxInt(d[key]) ELSE "ERR"

FieldNamed(c, nm) == Fields(c)[CHOOSE i \in DOMAIN Fields(c) : Fields(c)[i].name = nm]

\* validation of data against class c, fields looked up by alias (byAlias)
\* or by name; unknown keys are ignored
Validate(c, data, byAlias, error) ==
    IF data.tag = "object"
    THEN IF data.cls = c THEN Return(data) ELSE Raise(error, "")
    ELSE IF data.tag # "dict" THEN Raise(error, "")
    ELSE LET attrs == [nm \in FieldNames(c) |->
                          ReadField(FieldNamed(c, nm), data.d,
                                    IF byAlias THEN FieldNamed(c, nm).alias ELSE nm)]
         IN IF \E nm \in FieldNames(c) : attrs[nm] = "ERR"
            THEN Raise(error, "")
            ELSE Return(PyObj(c, attrs))

\* TypeAdapter(c).validate_python(data); the stub TypeAdapter takes no argument
TypeAdapter_validate_python(c, data) ==
    IF PYDANTIC_INSTALLED /\ Kind(c) # "other"
    THEN Validate(c, data, TRUE, "PydanticValidationError")
    ELSE Raise("TypeError", "")

\* msgspec.convert(data, c, strict=False); the stub takes no strict keyword
convert(c, data) ==
    IF MSGSPEC_INSTALLED /\ Kind(c) # "other"
    THEN Validate(c, data, FALSE, "MsgSpecValidationError")
    ELSE Raise("TypeError", "")

\* a model instance rendered as a mapping keyed by field name
\* (RootModel.model_dump, TypeAdapter.dump_python, msgspec.to_builtins)
DumpByName(raw) == PyDict(raw.d)

\* BaseModel.model_dump(by_alias=by_alias)
BaseModel_model_dump(raw, by_alias) ==
    IF by_alias
    THEN PyDict([k \in {FieldNamed(raw.cls, nm).alias : nm \in DOMAIN raw.d} |->
                   raw.d[CHOOSE nm \in DOMAIN raw.d : FieldNamed(raw.cls, nm).alias = k]])
    ELSE PyDict(raw.d)

humps_camelize(v) == PyDict(CamelizeKeys(v.d))
humps_kebabize(v) == PyDict(KebabizeKeys(v.d))
humps_decamelize(v) == IF v.tag = "dict" THEN PyDict(DecamelizeKeys(v.d)) ELSE v

\* ----------------------------------------------------------- conversion.py

IsInstance(raw, kind) == raw.tag = "object" /\ Kind(raw.cls) = kind

\* is_pydantic_dataclass(raw) on an instance
RawIsPydanticDataclass(raw) ==
    PYDANTIC_INSTALLED /\ IsInstance(raw, "pydantic_dataclass") /\ instance_is_pydc

\* isinstance(raw, (list, dict)) or is_dataclass(raw)
RawIsPlain(raw) == raw.tag = "dict" \/ (raw.tag = "object" /\ is_dataclass(raw.cls))

\* some arm of model_dump's chain other than the final else takes raw
model_dump_recognises(raw, preference) ==
    \/ RawIsPydanticDataclass(raw)
    \/ (PYDANTIC_INSTALLED /\ IsInstance(raw, "basemodel"))
    \/ (MSGSPEC_INSTALLED /\ (IsInstance(raw, "struct") \/ IsInstance(raw, "attrs")))
    \/ (RawIsPlain(raw) /\ PYDANTIC_INSTALLED /\ preference # "msgspec")
    \/ (RawIsPlain(raw) /\ MSGSPEC_INSTALLED /\ preference # "pydantic")

\* the casing step with its first test inverted
ApplyCasing_Inverted(value, camelize, kebabize) ==
    IF ~camelize THEN humps_camelize(value)
    ELSE IF kebabize THEN humps_kebabize(value)
    ELSE value

\* the casing step that ends model_dump (lines 154-159)
ApplyCasing(value, camelize, kebabize) ==
    IF camelize THEN humps_camelize(value)
    ELSE IF kebabize THEN humps_kebabize(value)
    ELSE value

model_dump(raw, by_alias, camelize, kebabize, preference) ==
    LET value ==
            IF RawIsPydanticDataclass(raw) THEN DumpByName(raw)
            ELSE IF PYDANTIC_INSTALLED /\ IsInstance(raw, "basemodel")
                 THEN BaseModel_model_dump(raw, by_alias)
                 ELSE DumpByName(raw)
    IN IF ~model_dump_recognises(raw, preference) THEN raw
       ELSE ApplyCasing(value, camelize, kebabize)

\* the except clause without the pydantic error and its base class
ModelLoadHandlers_NoValueError == {"TypeError", "MsgSpecValidationError"}

\* the except clause of model_load
ModelLoadHandlers == {"TypeError", "MsgSpecValidationError", "PydanticValidationError", "ValueError"}

\* isinstance(model_class, (list, dict)) is False of every class, so the
\* ambiguous arm of each condition is is_dataclass(model_class) alone
model_load_branch(model_class, preference) ==
    IF \/ is_pydantic_dataclass(model_class)
       \/ issubclass_BaseModel(model_class)
       \/ (is_dataclass(model_class) /\ PYDANTIC_INSTALLED /\ preference # "msgspec")
    THEN "pydantic"
    ELSE IF \/ issubclass_Struct(model_class)
            \/ is_attrs(model_class)
            \/ (is_dataclass(model_class) /\ MSGSPEC_INSTALLED /\ preference # "pydantic")
         THEN "msgspec"
         ELSE "none"

model_load(data, model_class, exception_class, decamelize, preference) ==
    LET data1 == IF decamelize THEN humps_decamelize(data) ELSE data
        branch == model_load_branch(model_class, preference)
        attempt ==
            CASE branch = "pydantic" -> TypeAdapter_validate_python(model_class, data1)
              [] branch = "msgspec" -> convert(model_class, data1)
              [] OTHER -> Raise("TypeError", "Cannot load")
    IN IF attempt.kind = "raise" /\ Caught(attempt.exc, ModelLoadHandlers)
       THEN Raise(exception_class, attempt.exc)
       ELSE attempt


PYDANTIC_REF_TEMPLATE == "#/components/schemas/{model}"
MSGSPEC_REF_TEMPLATE == "#/components/schemas/{name}"

\* the schema either generator writes for class c: pydantic names the
\* properties by alias and titles each one, msgspec names them by field name
SchemaOf(c, generator) ==
    [generator |-> generator,
     title |-> c,
     type |-> "object",
     ref_template |-> IF generator = "pydantic" THEN PYDANTIC_REF_TEMPLATE
                      ELSE MSGSPEC_REF_TEMPLATE,
     properties |-> {IF generator = "pydantic" THEN Fields(c)[i].alias ELSE Fields(c)[i].name :
                        i \in DOMAIN Fields(c)},
     property_titles |-> generator = "pydantic",
     required |-> {IF generator = "pydantic" THEN Fields(c)[i].alias ELSE Fields(c)[i].name :
                        i \in {j \in DOMAIN Fields(c) : Fields(c)[j].required}}]

NoSchema == [generator |-> "", title |-> "", type |-> "", ref_template |-> "",
             properties |-> {}, property_titles |-> FALSE, required |-> {}]

\* the branch chosen without looking at the preference
model_schema_branch_NoPreference(model_class, preference) ==
    IF \/ is_pydantic_dataclass(model_class)
       \/ issubclass_BaseModel(model_class)
       \/ is_dataclass(model_class)
    THEN "pydantic"
    ELSE IF issubclass_Struct(model_class) \/ is_attrs(model_class)
         THEN "msgspec"
         ELSE "none"

\* the branch model_schema takes: which generator it calls, if any
model_schema_branch(model_class, preference) ==
    IF \/ is_pydantic_dataclass(model_class)
       \/ issubclass_BaseModel(model_class)
       \/ (is_dataclass(model_class) /\ preference # "msgspec")
    THEN "pydantic"
    ELSE IF \/ issubclass_Struct(model_class)
            \/ is_attrs(model_class)
            \/ (is_dataclass(model_class) /\ preference # "pydantic")
         THEN "msgspec"
         ELSE "none"

\* model_schema: the stub TypeAdapter takes no argument (TypeError) and
\* schema_components has no stub (NameError)
model_schema(model_class, preference) ==
    LET branch == model_schema_branch(model_class, preference)
    IN CASE branch = "pydantic" ->
                IF PYDANTIC_INSTALLED
                THEN [Return(PyNone) EXCEPT !.val = SchemaOf(model_class, "pydantic")]
                ELSE [Raise("TypeError", "TypeAdapter") EXCEPT !.val = NoSchema]
         [] branch = "msgspec" ->
                IF MSGSPEC_INSTALLED
                THEN [Return(PyNone) EXCEPT !.val = SchemaOf(model_class, "msgspec")]
                ELSE [Raise("NameError", "schema_components") EXCEPT !.val = NoSchema]
         [] OTHER -> [Raise("TypeError", "Cannot create schema") EXCEPT !.val = NoSchema]

\* ---- convert_headers

\* raw is [multi, items]: a werkzeug Headers (multi) or a dict, its entries
\* <<name, value>> in iteration order
HeaderKeys(raw) == [i \in DOMAIN raw.items |-> raw.items[i][1]]

RECURSIVE Join(_)
Join(values) ==
    IF values = <<>> THEN ""
    ELSE IF Len(values) = 1 THEN values[1]
    ELSE values[1] \o "," \o Join(Tail(values))

RECURSIVE SelectValues(_, _)
SelectValues(items, key) ==
    IF items = <<>> THEN <<>>
    ELSE IF StrLower(items[1][1]) = StrLower(key)
         THEN <<items[1][2]>> \o SelectValues(Tail(items), key)
         ELSE SelectValues(Tail(items), key)

\* Headers.get_all(key): the values of every entry of that name, names
\* compared without case
get_all(raw, key) == SelectValues(raw.items, key)

\* raw[raw_key] of a dict
DictGet(raw, key) == raw.items[CHOOSE i \in DOMAIN raw.items : raw.items[i][1] = key][2]

\* the field name without the lower-casing
HeaderFieldName_NoLower(raw_key) == Dekebabize(raw_key)

\* humps.dekebabize(raw_key).lower()
HeaderFieldName(raw_key) == StrLower(Dekebabize(raw_key))

\* the loop of convert_headers over raw.keys() from entry i on
RECURSIVE CollectHeaders(_, _, _, _)
CollectHeaders(raw, fields_, i, result) ==
    IF i > Len(raw.items) THEN result
    ELSE LET raw_key == raw.items[i][1]
             key == HeaderFieldName(raw_key)
             value == IF raw.multi THEN Join(get_all(raw, raw_key)) ELSE DictGet(raw, raw_key)
         IN CollectHeaders(raw, fields_, i + 1,
                IF key \in fields_
                THEN [k \in DOMAIN result \cup {key} |-> IF k = key THEN value ELSE result[k]]
                ELSE result)

\* model_class(**kwargs): pydantic classes validate (by alias), the others
\* bind the keywords to the generated __init__
Construct(model_class, kwargs) ==
    IF Kind(model_class) \in {"basemodel", "pydantic_dataclass"}
    THEN Validate(model_class, PyDict(kwargs), TRUE, "PydanticValidationError")
    ELSE IF \/ \E k \in DOMAIN kwargs : k \notin FieldNames(model_class)
            \/ \E i \in DOMAIN Fields(model_class) :
                   Fields(model_class)[i].required /\ Fields(model_class)[i].name \notin DOMAIN kwargs
         THEN Raise("TypeError", "")
         ELSE Return(PyObj(model_class,
                  [nm \in FieldNames(model_class) |->
                      IF nm \in DOMAIN kwargs THEN kwargs[nm] ELSE "none"]))

\* the except clause of convert_headers
ConvertHeadersHandlers == {"TypeError", "MsgSpecValidationError", "ValueError"}

\* every arm of the kind chain reads the declared field names
HeadersKindKnown(model_class) ==
    \/ is_pydantic_dataclass(model_class)
    \/ is_dataclass(model_class)
    \/ issubclass_BaseModel(model_class)
    \/ is_attrs(model_class)
    \/ issubclass_Struct(model_class)

convert_headers(raw, model_class, exception_class) ==
    IF ~HeadersKindKnown(model_class) THEN Raise("TypeError", "")
    ELSE LET result == CollectHeaders(raw, FieldNames(model_class), 1, EmptyDict)
             built == Construct(model_class, result)
         IN IF built.kind = "raise" /\ Caught(built.exc, ConvertHeadersHandlers)
            THEN Raise(exception_class, built.exc)
            ELSE built


\* ---- convert_response_return_value

\* a handler's return value: a bare value (items of length one) or a tuple
Bare(v) == [tuple |-> FALSE, items |-> <<v>>]
Tuple(vs) == [tuple |-> TRUE, items |-> vs]

IsHTTPException(result) ==
    ~result.tuple /\ result.items[1].tag = "object" /\ result.items[1].cls = "HTTPException"

\* isinstance(status_or_headers, int)
IsInt(v) == v.tag = "int"

\* the headers argument when the return value names none
NoHeaders == PyNone
\* the status when the return value names none
NoStatus == PyNone

\* the headers dumped with the configured casing passed on
DumpResponseHeaders_Camel(headers, cfg) ==
    model_dump(headers, cfg.by_alias, cfg.casing, TRUE, cfg.preference)

\* the model_dump call made on the headers (lines 103-108)
DumpResponseHeaders(headers, cfg) ==
    model_dump(headers, cfg.by_alias, FALSE, TRUE, cfg.preference)

\* the model_dump call made on the body (lines 97-102)
DumpResponseValue(value, cfg) ==
    model_dump(value, cfg.by_alias, cfg.casing, FALSE, cfg.preference)

\* the tuple rebuilt with the pair always read as (value, headers)
NewResult_HeadersOnly(result, value, status, headers) ==
    IF result.tuple
    THEN IF Len(result.items) = 3 THEN Tuple(<<value, status, headers>>)
         ELSE Tuple(<<value, headers>>)
    ELSE Bare(value)

\* the tuple rebuilt from the converted parts (lines 110-122)
NewResult(result, value, status, headers) ==
    IF result.tuple
    THEN IF Len(result.items) = 3 THEN Tuple(<<value, status, headers>>)
         ELSE IF status # NoStatus THEN Tuple(<<value, status>>)
              ELSE Tuple(<<value, headers>>)
    ELSE Bare(value)

\* a tuple of any other length binds no value: line 97 reads an unbound local
convert_response_return_value(result, cfg) ==
    IF IsHTTPException(result) THEN [Return(PyNone) EXCEPT !.val = result]
    ELSE IF result.tuple /\ Len(result.items) \notin {2, 3}
         THEN [Raise("UnboundLocalError", "") EXCEPT !.val = result]
    ELSE LET value == result.items[1]
             status == IF result.tuple
                       THEN IF Len(result.items) = 3 THEN result.items[2]
                            ELSE IF IsInt(result.items[2]) THEN result.items[2] ELSE NoStatus
                       ELSE NoStatus
             headers == IF result.tuple
                        THEN IF Len(result.items) = 3 THEN result.items[3]
                             ELSE IF IsInt(result.items[2]) THEN NoHeaders ELSE result.items[2]
                        ELSE NoHeaders
         IN [Return(PyNone) EXCEPT !.val =
                NewResult(result, DumpResponseValue(value, cfg), status,
                          DumpResponseHeaders(headers, cfg))]


\* ------------------------------------------------------------------ inputs

DetailsClasses == {"ADetails", "DCDetails", "MDetails", "PyDetails", "PyDCDetails",
                   "PyAliasDetails"}
HeadersClasses == {"AHeaders", "DCHeaders", "MHeaders", "PyHeaders", "PyDCHeaders"}

\* the valid instances: type(name="bob", age=2), type(name="bob"), type(x_info="ABC")
Instances ==
    {PyObj(c, (K_name :> "bob") @@ (K_age :> a)) : c \in DetailsClasses, a \in {"i:2", "none"}}
    \cup {PyObj(c, (K_x_info :> "ABC")) : c \in HeadersClasses}

DefinableInstances == {v \in Instances : ClassDefinable(v.cls)}
DefinableClasses == {c \in ClassNames : ClassDefinable(c)}

\* plain mappings a handler returns or a request carries
Dicts ==
    {PyDict((K_name :> "bob") @@ (K_age :> "i:2")),
     PyDict((K_x_info :> "1")),
     PyDict((K_X_Info :> "1") @@ (K_Other :> "2")),
     PyDict(EmptyDict)}

\* request payloads: valid, ill-typed, lax-convertible, incomplete, aliased, camel-cased
Payloads ==
    {PyDict((K_name :> "bob") @@ (K_age :> "i:2")),
     PyDict((K_name :> "bob") @@ (K_age :> "two")),
     PyDict((K_name :> "bob") @@ (K_age :> "2")),
     PyDict((K_name :> "i:3") @@ (K_age :> "i:2")),
     PyDict((K_name :> "bob")),
     PyDict((K_age :> "i:2")),
     PyDict((K_fullName :> "bob") @@ (K_age :> "i:2")),
     PyDict((K_x_info :> "ABC")),
     PyDict((<<"x", "I", "n", "f", "o">> :> "ABC")),
     PyDict((K_name :> "bob") @@ (K_age :> "none") @@ (K_Other :> "2"))}

Configs == [casing : BOOLEAN, by_alias : BOOLEAN, preference : Preferences]
\* the configuration QuartSchema.init_app sets by default
DefaultConfig == [casing |-> FALSE, by_alias |-> FALSE, preference |-> "unset"]

DumpCalls ==
    [op : {"model_dump"}, raw : DefinableInstances \cup Dicts \cup {PyNone, PyStr},
     by_alias : BOOLEAN, camelize : BOOLEAN, kebabize : BOOLEAN, preference : Preferences]

LoadCalls ==
    [op : {"model_load"}, data : Payloads, model_class : DefinableClasses,
     exception_class : ExceptionClasses, decamelize : BOOLEAN, preference : Preferences]

SchemaCalls ==
    [op : {"model_schema"}, model_class : DefinableClasses, preference : Preferences]

HeaderEntries ==
    {<<K_X_Info, "ABC">>, <<K_X_Info, "DEF">>, <<K_x_info_kebab, "DEF">>,
     <<K_x_info, "GHI">>, <<K_Other, "2">>, <<<<"N", "a", "m", "e">>, "bob">>}

HeaderSeqs == UNION {[1..n -> HeaderEntries] : n \in 0..MaxHeaders}

\* a dict holds each key once; a Headers object may repeat a name
RawHeaders ==
    {[multi |-> TRUE, items |-> h] : h \in HeaderSeqs}
    \cup {[multi |-> FALSE, items |-> h] :
            h \in {g \in HeaderSeqs : \A i, j \in DOMAIN g : i # j => g[i][1] # g[j][1]}}

HeadersCalls ==
    [op : {"convert_headers"}, raw : RawHeaders, model_class : DefinableClasses,
     exception_class : ExceptionClasses]

ResponseBodies ==
    {v \in DefinableInstances : v.d \in {(K_name :> "bob") @@ (K_age :> "i:2"), (K_x_info :> "ABC")}}
    \cup {PyDict((K_x_info :> "1")), PyStr}
ResponseStatuses == {PyInt(200), PyInt(201)}
ResponseHeaders ==
    {PyDict((K_x_info :> "1")), PyDict((K_X_Info :> "1")), PyNone}
    \cup {v \in DefinableInstances : v.cls \in {"DCHeaders", "PyHeaders"}}

Results ==
    {Bare(b) : b \in ResponseBodies \cup {PyObj("HTTPException", EmptyDict)}}
    \cup {Tuple(<<b>>) : b \in ResponseBodies}
    \cup {Tuple(<<b, x>>) : b \in ResponseBodies, x \in ResponseStatuses \cup ResponseHeaders}
    \cup {Tuple(<<b, st, h>>) : b \in ResponseBodies, st \in ResponseStatuses \cup {PyNone},
                                h \in ResponseHeaders}

ResponseCalls == [op : {"convert_response_return_value"}, result : Results]

\* ------------------------------------------------- conversion.py, the calls

\* the import blocks have run, the application is configured and one call
\* of the conversion layer is about to be made
Init ==
    /\ PYDANTIC_INSTALLED \in BOOLEAN
    /\ MSGSPEC_INSTALLED \in BOOLEAN
    /\ instance_is_pydc \in (IF PYDANTIC_INSTALLED THEN BOOLEAN ELSE {FALSE})
    /\ url_map = <<>>
    /\ requests = <<>>
    /\ ret = NotCalled
    /\ \/ call \in DumpCalls /\ config = DefaultConfig
       \/ call \in LoadCalls /\ config = DefaultConfig
       \/ call \in SchemaCalls /\ config = DefaultConfig
       \/ call \in HeadersCalls /\ config = DefaultConfig
       \/ call \in ResponseCalls /\ config \in Configs

Pending(op) == ret.kind = "pending" /\ call.op = op

ModelDump ==
    /\ Pending("model_dump")
    /\ ret' = Return(model_dump(call.raw, call.by_alias, call.camelize, call.kebabize,
                                call.preference))
    /\ UNCHANGED <<PYDANTIC_INSTALLED, MSGSPEC_INSTALLED, instance_is_pydc, config, call, url_map, requests>>

ModelLoad ==
    /\ Pending("model_load")
    /\ ret' = model_load(call.data, call.model_class, call.exception_class, call.decamelize,
                         call.preference)
    /\ UNCHANGED <<PYDANTIC_INSTALLED, MSGSPEC_INSTALLED, instance_is_pydc, config, call, url_map, requests>>

ModelSchema ==
    /\ Pending("model_schema")
    /\ ret' = model_schema(call.model_class, call.preference)
    /\ UNCHANGED <<PYDANTIC_INSTALLED, MSGSPEC_INSTALLED, instance_is_pydc, config, call, url_map, requests>>

ConvertHeaders ==
    /\ Pending("convert_headers")
    /\ ret' = convert_headers(call.raw, call.model_class, call.exception_class)
    /\ UNCHANGED <<PYDANTIC_INSTALLED, MSGSPEC_INSTALLED, instance_is_pydc, config, call, url_map, requests>>

ConvertResponseReturnValue ==
    /\ Pending("convert_response_return_value")
    /\ ret' = convert_response_return_value(call.result, config)
    /\ UNCHANGED <<PYDANTIC_INSTALLED, MSGSPEC_INSTALLED, instance_is_pydc, config, call, url_map, requests>>

Next ==
    \/ ModelDump
    \/ ModelLoad
    \/ ModelSchema
    \/ ConvertHeaders
    \/ ConvertResponseReturnValue

Spec == Init /\ [][Next]_vars


\* ------------------------------------------------ properties, conversion.py

Done(op) == ret.kind # "pending" /\ call.op = op

NativeErrors == {"PydanticValidationError", "MsgSpecValidationError", "TypeError", "ValueError"}

\* a declared, unaliased field of class c is present in the payload with a
\* token of another type that no lax conversion accepts
StructurallyInvalid(data, c) ==
    \E i \in DOMAIN Fields(c) :
        LET f == Fields(c)[i]
        IN /\ f.alias = f.name
           /\ f.name \in DOMAIN data.d
           /\ IF f.type = "str" THEN data.d[f.name] \in IntTokens \cup {"none"}
              ELSE data.d[f.name] \notin IntTokens \cup {"none", "2"}

\* C1: model_load on a structurally invalid payload, for every model kind
\* and every exception class handed in, raises that exception class, and no
\* call of model_load lets a backend's own error out.
C1_LoadErrorNormalised ==
    Done("model_load") =>
        /\ ret.kind = "raise" => ret.exc = call.exception_class
        /\ (Kind(call.model_class) # "other" /\ StructurallyInvalid(call.data, call.model_class))
               => ret.kind = "raise" /\ ret.exc \notin NativeErrors

\* C1 witness: a pydantic model given age = "two" has its ValidationError wrapped
C1_Witness ==
    /\ Done("model_load")
    /\ Kind(call.model_class) = "basemodel"
    /\ StructurallyInvalid(call.data, call.model_class)
    /\ ret.exc = call.exception_class
    /\ ret.cause = "PydanticValidationError"

\* C2: a target type of no recognised kind makes model_load raise TypeError,
\* not the exception class handed in.
C2_UnrecognisedRaisesTypeError ==
    (Done("model_load") /\ model_load_branch(call.model_class, call.preference) = "none")
        => ret.kind = "raise" /\ ret.exc = "TypeError"

\* model_dump and model_load both recognise the class of raw under preference
BothRecognise(raw, preference) ==
    /\ raw.tag = "object"
    /\ Kind(raw.cls) # "other"
    /\ model_dump_recognises(raw, preference)
    /\ model_load_branch(raw.cls, preference) # "none"

RoundTrips(raw, dumped, preference) ==
    \A e \in ExceptionClasses : model_load(dumped, raw.cls, e, FALSE, preference) = Return(raw)

\* C3 as stated: loading what model_dump wrote without aliases and casing
\* gives back the instance, for every recognised kind.
C3_RoundTrip ==
    (/\ Done("model_dump")
     /\ ~call.by_alias /\ ~call.camelize /\ ~call.kebabize
     /\ BothRecognise(call.raw, call.preference))
        => RoundTrips(call.raw, ret.val, call.preference)

\* C3 amended: the round trip holds for every instance whose class declares
\* no field alias.
C3_RoundTripNoAlias ==
    (/\ Done("model_dump")
     /\ ~call.by_alias /\ ~call.camelize /\ ~call.kebabize
     /\ BothRecognise(call.raw, call.preference)
     /\ ~HasAlias(call.raw.cls))
        => RoundTrips(call.raw, ret.val, call.preference)

\* C3 witness: a plain dataclass dumped and loaded under the msgspec preference
C3_Witness ==
    /\ Done("model_dump")
    /\ ~call.by_alias /\ ~call.camelize /\ ~call.kebabize
    /\ call.raw = PyObj("DCHeaders", (K_x_info :> "ABC"))
    /\ call.preference = "msgspec"
    /\ BothRecognise(call.raw, call.preference)
    /\ ret.val = PyDict((K_x_info :> "ABC"))
    /\ RoundTrips(call.raw, ret.val, call.preference)

\* model_schema called the pydantic generator: its schema shape, or the
\* stub's TypeError where pydantic is missing
TookPydantic ==
    IF PYDANTIC_INSTALLED
    THEN /\ ret.kind = "return"
         /\ ret.val.generator = "pydantic"
         /\ ret.val.property_titles
         /\ ret.val.ref_template = PYDANTIC_REF_TEMPLATE
    ELSE ret.kind = "raise" /\ ret.exc = "TypeError" /\ ret.cause = "TypeAdapter"

\* model_schema called the msgspec generator
TookMsgspec ==
    IF MSGSPEC_INSTALLED
    THEN /\ ret.kind = "return"
         /\ ret.val.generator = "msgspec"
         /\ ~ret.val.property_titles
         /\ ret.val.ref_template = MSGSPEC_REF_TEMPLATE
    ELSE ret.kind = "raise" /\ ret.exc = "NameError"

\* C4: a plain dataclass goes to the generator the preference names and to
\* pydantic when none is named; the unambiguous kinds go to their own
\* backend whatever the preference.
C4_PreferenceResolution ==
    Done("model_schema") =>
        LET k == Kind(call.model_class)
        IN /\ (k = "dataclass" /\ call.preference = "pydantic") => TookPydantic
           /\ (k = "dataclass" /\ call.preference = "msgspec") => TookMsgspec
           /\ (k = "dataclass" /\ call.preference = "unset") => TookPydantic
           /\ k \in {"basemodel", "pydantic_dataclass"} => TookPydantic
           /\ (k \in {"struct", "attrs"} /\ MSGSPEC_INSTALLED) => TookMsgspec

\* C4 witness: the dataclass under the msgspec preference, both backends there
C4_Witness ==
    /\ Done("model_schema")
    /\ PYDANTIC_INSTALLED /\ MSGSPEC_INSTALLED
    /\ call.model_class = "DCDetails"
    /\ call.preference = "msgspec"
    /\ ret.kind = "return" /\ ret.val.generator = "msgspec"


\* C5: convert_response_return_value keeps the shape of what the handler
\* returned; the second of two elements is a status exactly when it is an
\* integer and is then returned untouched in its place, otherwise it comes
\* back as serialised headers; an HTTPException is returned as it is.
C5_ShapePreserved ==
    (Done("convert_response_return_value") /\ ret.kind = "return") =>
        LET in == call.result
            out == ret.val
        IN /\ IsHTTPException(in) => out = in
           /\ out.tuple = in.tuple
           /\ Len(out.items) = Len(in.items)
           /\ (in.tuple /\ Len(in.items) = 3) => out.items[2] = in.items[2]
           /\ (in.tuple /\ Len(in.items) = 2 /\ in.items[2].tag = "int")
                  => out.items[2] = in.items[2]
           /\ (in.tuple /\ Len(in.items) = 2 /\ in.items[2].tag # "int")
                  => out.items[2] = model_dump(in.items[2], config.by_alias, FALSE, TRUE,
                                               config.preference)

\* C5 witness: (body, 201) comes back as (serialised body, 201)
C5_Witness ==
    /\ Done("convert_response_return_value")
    /\ call.result = Tuple(<<PyObj("DCDetails", (K_name :> "bob") @@ (K_age :> "i:2")), PyInt(201)>>)
    /\ ret.val = Tuple(<<PyDict((K_name :> "bob") @@ (K_age :> "i:2")), PyInt(201)>>)

\* the headers of a return value, or of what it was converted to
HeadersOf(result) ==
    IF result.tuple /\ Len(result.items) = 3 THEN result.items[3]
    ELSE IF result.tuple /\ Len(result.items) = 2 /\ result.items[2].tag # "int"
         THEN result.items[2]
         ELSE NoHeaders

\* C6: the casing mode changes nothing in the returned headers: under either
\* mode they are the same, and where the serialiser takes the headers every
\* key is the kebab form of a key of their serialisation, not its camel form.
C6_HeadersIgnoreCasing ==
    (Done("convert_response_return_value") /\ ret.kind = "return"
        /\ ~IsHTTPException(call.result)) =>
        LET h_in == HeadersOf(call.result)
            h_out == HeadersOf(ret.val)
            plain == model_dump(h_in, config.by_alias, FALSE, FALSE, config.preference)
        IN /\ \A c \in BOOLEAN :
                  HeadersOf(convert_response_return_value(
                                call.result, [config EXCEPT !.casing = c]).val) = h_out
           /\ model_dump_recognises(h_in, config.preference)
                  => /\ h_out.tag = "dict"
                     /\ DOMAIN h_out.d = {KebabizeStr(k) : k \in DOMAIN plain.d}
                     /\ \A k \in DOMAIN plain.d : h_out.d[KebabizeStr(k)] = plain.d[k]
           /\ ~model_dump_recognises(h_in, config.preference) => h_out = h_in

\* C6 witness: with camel casing configured the body key is camel-cased
\* and the header key of the same spelling is kebab-cased
C6_Witness ==
    /\ Done("convert_response_return_value")
    /\ config.casing
    /\ call.result = Tuple(<<PyDict((K_x_info :> "1")), PyInt(201), PyDict((K_x_info :> "1"))>>)
    /\ ret.val = Tuple(<<PyDict((<<"x", "I", "n", "f", "o">> :> "1")), PyInt(201),
                         PyDict((K_x_info_kebab :> "1"))>>)

\* the declared field a wire header name stands for: hyphens read as
\* underscores, letters without case
WireFieldName(raw_key) ==
    CASE raw_key \in {K_X_Info, K_x_info_kebab, K_x_info} -> K_x_info
      [] raw_key = <<"N", "a", "m", "e">> -> K_name
      [] raw_key = K_Other -> <<"o", "t", "h", "e", "r">>

\* the last entry of raw whose name stands for field f
LastEntryFor(raw, f) ==
    CHOOSE i \in DOMAIN raw.items :
        /\ WireFieldName(raw.items[i][1]) = f
        /\ \A j \in DOMAIN raw.items : WireFieldName(raw.items[j][1]) = f => j <= i

\* the values, in order, of the entries of raw named as entry i is
ValuesNamedAs(raw, i) ==
    LET same == {j \in DOMAIN raw.items :
                    StrLower(raw.items[j][1]) = StrLower(raw.items[i][1])}
        nth[n \in 0..Len(raw.items)] ==
            IF n = 0 THEN <<>>
            ELSE IF n \in same THEN Append(nth[n - 1], raw.items[n][2]) ELSE nth[n - 1]
    IN nth[Len(raw.items)]

\* the value the field f is to receive from raw
ExpectedHeaderValue(raw, f) ==
    LET i == LastEntryFor(raw, f)
    IN IF raw.multi THEN Join(ValuesNamedAs(raw, i)) ELSE raw.items[i][2]

\* raw without the entries that stand for no declared field of c
RECURSIVE DeclaredOnly(_, _)
DeclaredOnly(items, c) ==
    IF items = <<>> THEN <<>>
    ELSE IF WireFieldName(items[1][1]) \in FieldNames(c)
         THEN <<items[1]>> \o DeclaredOnly(Tail(items), c)
         ELSE DeclaredOnly(Tail(items), c)

WithoutUndeclared(raw, c) == [raw EXCEPT !.items = DeclaredOnly(raw.items, c)]

\* C7: convert_headers hands the model exactly the headers whose name,
\* hyphens read as underscores and lower-cased, is a declared field, each
\* with its value (the values joined by commas for a Headers object); the
\* other headers change nothing and raise nothing.
C7_HeadersMapped ==
    (Done("convert_headers") /\ Kind(call.model_class) # "other"
        /\ HeadersKindKnown(call.model_class)) =>
        LET raw == call.raw
            c == call.model_class
            supplied == {WireFieldName(raw.items[i][1]) : i \in DOMAIN raw.items}
                            \cap FieldNames(c)
        IN /\ ret.kind = "return" =>
                  /\ ret.val.tag = "object" /\ ret.val.cls = c
                  /\ \A f \in FieldNames(c) :
                        ret.val.d[f] = IF f \in supplied THEN ExpectedHeaderValue(raw, f)
                                       ELSE "none"
           /\ ret.kind = "raise" => ret.exc = call.exception_class
           /\ ret = convert_headers(WithoutUndeclared(raw, c), c, call.exception_class)

\* C7 witness: X-Info twice in a Headers object fills x_info with both values
C7_Witness ==
    /\ Done("convert_headers")
    /\ call.raw = [multi |-> TRUE, items |-> << <<K_X_Info, "ABC">>, <<K_X_Info, "DEF">> >>]
    /\ call.model_class = "DCHeaders"
    /\ ret = Return(PyObj("DCHeaders", (K_x_info :> "ABC,DEF")))

\* C7 witness, the other half: a header that is no field is dropped
C7_WitnessDropped ==
    /\ Done("convert_headers")
    /\ call.raw = [multi |-> FALSE, items |-> << <<K_X_Info, "ABC">>, <<K_Other, "2">> >>]
    /\ ret = Return(PyObj(call.model_class, (K_x_info :> "ABC")))


\* ------------------------------------------------ extension.py, websockets

\* pydantic (version 1, as extension.py imports it) reading one field:
\* an integer is accepted for a str field and stored as its digits
WsReadField(f, d, key) ==
    IF key \in DOMAIN d /\ f.type = "str" /\ d[key] = "i:2" THEN "2"
    ELSE IF key \in DOMAIN d /\ f.type = "str" /\ d[key] = "i:3" THEN "3"
    ELSE ReadField(f, d, key)

\* model_class(**data) as the websocket mixin calls it: ** needs a mapping;
\* a dataclass binds keywords to its generated __init__ (a TypeError for a
\* missing or unknown one) and a pydantic class then validates
WsConstruct(model_class, data) ==
    IF data.tag # "dict" THEN Raise("TypeError", "argument after ** must be a mapping")
    ELSE IF is_dataclass(model_class)
              /\ (\/ \E k \in DOMAIN data.d : k \notin FieldNames(model_class)
                  \/ \E i \in DOMAIN Fields(model_class) :
                         /\ Fields(model_class)[i].required
                         /\ Fields(model_class)[i].name \notin DOMAIN data.d)
         THEN Raise("TypeError", "__init__")
    ELSE IF Kind(model_class) = "dataclass"
         THEN Return(PyObj(model_class,
                  [nm \in FieldNames(model_class) |->
                      IF nm \in DOMAIN data.d THEN data.d[nm] ELSE "none"]))
    ELSE LET byName == Kind(model_class) = "pydantic_dataclass"
             attrs == [nm \in FieldNames(model_class) |->
                          WsReadField(FieldNamed(model_class, nm), data.d,
                                      IF byName THEN nm ELSE FieldNamed(model_class, nm).alias)]
         IN IF \E nm \in FieldNames(model_class) : attrs[nm] = "ERR"
            THEN Raise("PydanticValidationError", "")
            ELSE Return(PyObj(model_class, attrs))

\* the except clauses of receive_as and send_as name pydantic's ValidationError
WsHandlers == {"PydanticValidationError"}

\* receive_as: data is what receive_json delivered
receive_as(data, model_class) ==
    LET built == WsConstruct(model_class, data)
    IN IF built.kind = "raise" /\ Caught(built.exc, WsHandlers)
       THEN Raise("SchemaValidationError", "")
       ELSE built

\* send_as: val of the result is the mapping handed to send_json
send_as(value, model_class) ==
    LET built == IF value.tag = "dict" THEN WsConstruct(model_class, value)
                 ELSE IF value.tag = "object" /\ value.cls = model_class THEN Return(value)
                 ELSE Raise("SchemaValidationError", "")
    IN IF built.kind = "raise"
       THEN IF built.exc = "SchemaValidationError" \/ ~Caught(built.exc, WsHandlers)
            THEN built
            ELSE Raise("SchemaValidationError", "")
       ELSE Return(PyDict(built.val.d))

\* the classes a websocket handler names: pydantic models and dataclasses
WsClasses == {"PyDetails", "PyAliasDetails", "PyDCDetails", "DCDetails"}

\* receive_json delivers a JSON object
ReceiveCalls == [op : {"receive_as"}, data : Payloads, model_class : WsClasses]

SendCalls ==
    [op : {"send_as"},
     value : Payloads \cup {v \in Instances : v.cls \in WsClasses} \cup {PyStr},
     model_class : WsClasses]

\* extension.py imports pydantic unconditionally
InitWs ==
    /\ PYDANTIC_INSTALLED = TRUE
    /\ MSGSPEC_INSTALLED \in BOOLEAN
    /\ instance_is_pydc = FALSE
    /\ config = DefaultConfig
    /\ url_map = <<>>
    /\ requests = <<>>
    /\ ret = NotCalled
    /\ (call \in ReceiveCalls \/ call \in SendCalls)

ReceiveAs ==
    /\ Pending("receive_as")
    /\ ret' = receive_as(call.data, call.model_class)
    /\ UNCHANGED <<PYDANTIC_INSTALLED, MSGSPEC_INSTALLED, instance_is_pydc, config, call, url_map, requests>>

SendAs ==
    /\ Pending("send_as")
    /\ ret' = send_as(call.value, call.model_class)
    /\ UNCHANGED <<PYDANTIC_INSTALLED, MSGSPEC_INSTALLED, instance_is_pydc, config, call, url_map, requests>>

NextWs == ReceiveAs \/ SendAs

SpecWs == InitWs /\ [][NextWs]_vars

\* C9: on the websocket path a payload that fails the construction of the
\* model class, and a sent value that is neither a dict nor an instance of
\* exactly the model class, make the call raise SchemaValidationError.
C9_WsErrorsNormalised ==
    /\ Done("receive_as") =>
           (WsConstruct(call.model_class, call.data).kind = "raise"
               => ret.kind = "raise" /\ ret.exc = "SchemaValidationError")
    /\ Done("send_as") =>
           /\ (call.value.tag = "dict" /\ WsConstruct(call.model_class, call.value).kind = "raise")
                  => ret.kind = "raise" /\ ret.exc = "SchemaValidationError"
           /\ (call.value.tag # "dict" /\ ~(call.value.tag = "object" /\ call.value.cls = call.model_class))
                  => ret.kind = "raise" /\ ret.exc = "SchemaValidationError"


\* --------------------------------------------------- extension.py, openapi

\* the first index at or after from where s holds ch, or 0
RECURSIVE FirstIndexOf(_, _, _)
FirstIndexOf(s, ch, from) ==
    IF from > Len(s) THEN 0
    ELSE IF s[from] = ch THEN from
    ELSE FirstIndexOf(s, ch, from + 1)

\* PATH_RE, <(?:[^:]*:)?([^>]+)>, matched at position i of s: <<end of the
\* match, start of the group>>, or <<0, 0>>.  The optional prefix is tried
\* first and runs to the first colon; the group runs to the first > after
\* its start and is not empty.
PathMatch(s, i) ==
    IF s[i] # "<" THEN <<0, 0>>
    ELSE LET colon == FirstIndexOf(s, ":", i + 1)
             closeA == IF colon = 0 THEN 0 ELSE FirstIndexOf(s, ">", colon + 1)
             closeB == FirstIndexOf(s, ">", i + 1)
         IN IF colon # 0 /\ closeA >= colon + 2 THEN <<closeA, colon + 1>>
            ELSE IF closeB >= i + 2 THEN <<closeB, i + 1>>
            ELSE <<0, 0>>

\* re.sub(PATH_RE, r"{\1}", rule) from position i on
RECURSIVE PathSub(_, _)
PathSub(s, i) ==
    IF i > Len(s) THEN <<>>
    ELSE LET m == PathMatch(s, i)
         IN IF m[1] # 0
            THEN <<"{">> \o SubSeq(s, m[2], m[1] - 1) \o <<"}">> \o PathSub(s, m[1] + 1)
            ELSE <<s[i]>> \o PathSub(s, i + 1)

OpenapiPath(rule) == PathSub(rule, 1)

\* str.splitlines(): a line ends at each newline; no empty last line
RECURSIVE Splitlines(_)
Splitlines(doc) ==
    IF doc = <<>> THEN <<>>
    ELSE LET nl == FirstIndexOf(doc, "\n", 1)
         IN IF nl = 0 THEN <<doc>>
            ELSE <<SubSeq(doc, 1, nl - 1)>> \o Splitlines(SubSeq(doc, nl + 1, Len(doc)))

\* "\n".join(lines)
RECURSIVE JoinLines(_)
JoinLines(lines) ==
    IF lines = <<>> THEN <<>>
    ELSE IF Len(lines) = 1 THEN lines[1]
    ELSE lines[1] \o <<"\n">> \o JoinLines(Tail(lines))

\* a merge that keeps the entry already there
DictUpdate_KeepFirst(a, b) ==
    [k \in DOMAIN a \cup DOMAIN b |-> IF k \in DOMAIN a THEN a[k] ELSE b[k]]

\* dict.update
DictUpdate(a, b) == [k \in DOMAIN a \cup DOMAIN b |-> IF k \in DOMAIN b THEN b[k] ELSE a[k]]

\* a JSON schema as the decorators attach it: its title, its properties in
\* order and, when has_definitions, its "definitions" mapping
JsonSchema(title, properties, has_definitions, definitions) ==
    [title |-> title, properties |-> properties, has_definitions |-> has_definitions,
     definitions |-> definitions]

\* dict.pop("definitions", {}): <<what is popped, the dict afterwards>>
Pop_definitions(schema) ==
    <<IF schema.has_definitions THEN schema.definitions ELSE EmptyDict,
      [schema EXCEPT !.has_definitions = FALSE, !.definitions = EmptyDict]>>

\* popping from the schema passed in, not from a copy of it
split_definitions_InPlace(schema) ==
    <<Pop_definitions(schema)[1], Pop_definitions(schema)[2], Pop_definitions(schema)[2]>>

\* _split_definitions: <<definitions, new_schema>>, popped from a copy; the
\* third element is the dict passed in as the call leaves it
split_definitions(schema) ==
    LET new_schema == schema
        popped == Pop_definitions(new_schema)
    IN <<popped[1], popped[2], schema>>

NoDoc == [present |-> FALSE, text |-> <<>>]
Doc(text) == [present |-> TRUE, text |-> text]
Absent == [present |-> FALSE, schema |-> JsonSchema("", <<>>, FALSE, EmptyDict)]
Present(schema) == [present |-> TRUE, schema |-> schema]

\* getattr(func, ..._ATTRIBUTE, default): the handler has schema metadata
HasMetadata(func) ==
    ~(func.response_schemas = <<>> /\ ~func.request_schema.present
        /\ ~func.querystring_schema.present)

\* components and responses after the response loop (lines 198-207) from
\* entry i of response_schemas on; acc is <<schemas, responses>>
RECURSIVE ResponseLoop(_, _, _)
ResponseLoop(response_schemas, i, acc) ==
    IF i > Len(response_schemas) THEN acc
    ELSE LET split == split_definitions(response_schemas[i][2])
         IN ResponseLoop(response_schemas, i + 1,
                <<DictUpdate(acc[1], split[1]),
                  DictUpdate(acc[2], response_schemas[i][1] :> split[2])>>)

QueryParameters(schema) ==
    [i \in DOMAIN schema.properties |->
        [name |-> schema.properties[i][1], in |-> "query", has_schema |-> TRUE,
         schema |-> schema.properties[i][2]]]

PathParameters(converters) ==
    [i \in DOMAIN converters |->
        [name |-> converters[i], in |-> "path", has_schema |-> FALSE, schema |-> ""]]

\* lines 189-238 for one rule with metadata: the path_object and the
\* components after it, or the ValueError of unpacking no line at all
BuildPathObject(rule, schemas) ==
    LET func == rule.func
        lines == Splitlines(func.doc.text)
        responded == ResponseLoop(func.response_schemas, 1, <<schemas, EmptyDict>>)
        request == split_definitions(func.request_schema.schema)
        afterRequest == IF func.request_schema.present
                        THEN DictUpdate(responded[1], request[1]) ELSE responded[1]
        query == split_definitions(func.querystring_schema.schema)
        afterQuery == IF func.querystring_schema.present
                      THEN DictUpdate(afterRequest, query[1]) ELSE afterRequest
    IN IF func.doc.present /\ lines = <<>>
       THEN [ok |-> FALSE, schemas |-> schemas, path_object |-> <<>>]
       ELSE [ok |-> TRUE,
             schemas |-> afterQuery,
             path_object |->
                [parameters |->
                    (IF func.querystring_schema.present THEN QueryParameters(query[2]) ELSE <<>>)
                        \o PathParameters(rule.converters),
                 responses |-> responded[2],
                 has_doc |-> func.doc.present,
                 summary |-> IF func.doc.present THEN lines[1] ELSE <<>>,
                 description |-> IF func.doc.present THEN JoinLines(Tail(lines)) ELSE <<>>,
                 has_requestBody |-> func.request_schema.present,
                 requestBody |-> request[2]]]

M_GET == <<"G", "E", "T">>
M_POST == <<"P", "O", "S", "T">>
M_HEAD == <<"H", "E", "A", "D">>
M_OPTIONS == <<"O", "P", "T", "I", "O", "N", "S">>

\* keeping HEAD, and OPTIONS whether generated or not
MethodSkipped_OptionsOnly(rule, method) ==
    method = M_OPTIONS /\ rule.provide_automatic_options

\* the test of line 244
MethodSkipped(rule, method) ==
    method = M_HEAD \/ (method = M_OPTIONS /\ rule.provide_automatic_options)

\* lines 240-246: the method map of the rule's path with the path_object
\* under every method that is not skipped
AttachMethods(paths, rule, path_object) ==
    LET path == OpenapiPath(rule.rule)
        before == IF path \in DOMAIN paths THEN paths[path] ELSE EmptyDict
        keys == {StrLower(m) : m \in {x \in rule.methods : ~MethodSkipped(rule, x)}}
    IN DictUpdate(paths, path :> DictUpdate(before, [k \in keys |-> path_object]))

\* the loop over url_map.iter_rules() from rule i on
RECURSIVE RuleLoop(_, _, _, _)
RuleLoop(rules, i, paths, schemas) ==
    IF i > Len(rules) THEN [ok |-> TRUE, paths |-> paths, schemas |-> schemas]
    ELSE IF ~HasMetadata(rules[i].func) THEN RuleLoop(rules, i + 1, paths, schemas)
    ELSE LET built == BuildPathObject(rules[i], schemas)
         IN IF ~built.ok THEN [ok |-> FALSE, paths |-> paths, schemas |-> schemas]
            ELSE RuleLoop(rules, i + 1, AttachMethods(paths, rules[i], built.path_object),
                          built.schemas)

EmptyDocument ==
    [openapi |-> "", info |-> [title |-> "", version |-> ""],
     components |-> [schemas |-> EmptyDict], paths |-> EmptyDict]

\* QuartSchema.openapi over the rules registered
openapi(rules, title, version) ==
    LET looped == RuleLoop(rules, 1, EmptyDict, EmptyDict)
    IN IF ~looped.ok THEN [Raise("ValueError", "not enough values to unpack") EXCEPT
                              !.val = EmptyDocument]
       ELSE [Return(PyNone) EXCEPT !.val =
                [openapi |-> "3.0.3",
                 info |-> [title |-> title, version |-> version],
                 components |-> [schemas |-> looped.schemas],
                 paths |-> looped.paths]]


\* ---- the routes

NoFunc == [doc |-> NoDoc, response_schemas |-> <<>>, request_schema |-> Absent,
           querystring_schema |-> Absent]

Rule(rule, converters, methods, auto, func) ==
    [rule |-> rule, converters |-> converters, methods |-> methods,
     provide_automatic_options |-> auto, func |-> func]

\* what init_app registers (lines 171-176) for QuartSchema(app,
\* redoc_ui_path=None, swagger_ui_path=None): the openapi rule alone, whose
\* handler carries no schema metadata
P_openapi == <<"/", "o", "p", "e", "n", "a", "p", "i", ".", "j", "s", "o", "n">>
DefaultMethods == {M_GET, M_HEAD, M_OPTIONS}
OwnRules == <<Rule(P_openapi, <<>>, DefaultMethods, TRUE, NoFunc)>>

P_a == <<"/", "a">>
P_x == <<"/", "<", "x", ">">>
P_int_x == <<"/", "<", "i", "n", "t", ":", "x", ">">>

\* rule, converters, methods and provide_automatic_options as add_url_rule
\* leaves them
Routings ==
    {<<P_a, <<>>, {M_GET, M_HEAD, M_OPTIONS}, TRUE>>,
     <<P_a, <<>>, {M_POST, M_OPTIONS}, TRUE>>,
     <<P_a, <<>>, {M_GET, M_HEAD, M_OPTIONS}, FALSE>>,
     <<P_x, <<"x">>, {M_GET, M_HEAD, M_OPTIONS}, TRUE>>,
     <<P_int_x, <<"x">>, {M_GET, M_HEAD, M_OPTIONS}, TRUE>>,
     <<P_int_x, <<"x">>, {M_GET, M_HEAD, M_POST, M_OPTIONS}, FALSE>>}

ItemSchema == JsonSchema("Item", << <<"name", "string">> >>, TRUE, ("Sub" :> "item's Sub"))
OrderSchema == JsonSchema("Order", << <<"ref", "integer">> >>, TRUE, ("Sub" :> "order's Sub"))
QuerySchema == JsonSchema("Query", << <<"q", "string">>, <<"n", "integer">> >>, FALSE, EmptyDict)
ErrorSchema ==
    JsonSchema("Error", << <<"msg", "string">> >>, TRUE,
               ("Sub" :> "error's Sub") @@ ("Detail" :> "error's Detail"))
FilterSchema == JsonSchema("Filter", << <<"f", "string">> >>, TRUE, ("Sub" :> "filter's Sub"))

\* the metadata the validation decorators leave on a handler
Metadata ==
    {NoFunc,
     [NoFunc EXCEPT !.response_schemas = << <<200, ItemSchema>> >>],
     [NoFunc EXCEPT !.request_schema = Present(OrderSchema),
                    !.response_schemas = << <<201, ItemSchema>> >>],
     [NoFunc EXCEPT !.querystring_schema = Present(QuerySchema)],
     [NoFunc EXCEPT !.response_schemas = << <<200, ItemSchema>>, <<404, ErrorSchema>> >>,
                    !.querystring_schema = Present(FilterSchema)]}

DocChars == {"a", "\n"}
DocTexts == UNION {[1..n -> DocChars] : n \in 0..MaxDocLen}

\* the rules an application registers: every routing with every metadata,
\* and one routing with every documentation string
RuleCandidates ==
    {Rule(r[1], r[2], r[3], r[4], f) : r \in Routings, f \in Metadata}
    \cup {Rule(P_a, <<>>, {M_GET, M_HEAD, M_OPTIONS}, TRUE,
               [NoFunc EXCEPT !.doc = Doc(t), !.response_schemas = << <<200, ItemSchema>> >>]) :
            t \in DocTexts}

AppName == "app"
Version == "0.1.0"

\* QuartSchema(app, ...) has run: init_app has registered its own rule
InitOpenapi ==
    /\ PYDANTIC_INSTALLED = TRUE
    /\ MSGSPEC_INSTALLED = FALSE
    /\ instance_is_pydc = FALSE
    /\ config = DefaultConfig
    /\ url_map = OwnRules
    /\ requests = <<>>
    /\ call = [op |-> "startup"]
    /\ ret = NotCalled

\* app.add_url_rule / @app.route before the application serves
AddUrlRule ==
    /\ call.op = "startup"
    /\ Len(url_map) < Len(OwnRules) + MaxRules
    /\ \E r \in RuleCandidates : url_map' = Append(url_map, r)
    /\ UNCHANGED <<PYDANTIC_INSTALLED, MSGSPEC_INSTALLED, instance_is_pydc, config, call, ret, requests>>

\* a request for openapi_path
Openapi ==
    /\ call' = [op |-> "openapi"]
    /\ ret' = openapi(url_map, AppName, Version)
    /\ UNCHANGED <<PYDANTIC_INSTALLED, MSGSPEC_INSTALLED, instance_is_pydc, config, url_map, requests>>

NextOpenapi == AddUrlRule \/ Openapi

SpecOpenapi == InitOpenapi /\ [][NextOpenapi]_vars


\* ---------------------------------------------------- properties, openapi

\* the path a rule is documented under and the key of a method, written out
DocumentedPath(rule) ==
    CASE rule = P_a -> <<"/", "a">>
      [] rule \in {P_x, P_int_x} -> <<"/", "{", "x", "}">>
      [] rule = P_openapi -> P_openapi

MethodKey(method) ==
    CASE method = M_GET -> <<"g", "e", "t">>
      [] method = M_POST -> <<"p", "o", "s", "t">>
      [] method = M_HEAD -> <<"h", "e", "a", "d">>
      [] method = M_OPTIONS -> <<"o", "p", "t", "i", "o", "n", "s">>

\* the operation object openapi builds for the rule
OperationOf(rule) == BuildPathObject(rule, EmptyDict).path_object

\* a method the document is to show for the rule
Shown(rule, method) ==
    /\ method \in rule.methods
    /\ method # M_HEAD
    /\ ~(method = M_OPTIONS /\ rule.provide_automatic_options)

Documented == {i \in DOMAIN url_map : HasMetadata(url_map[i].func)}

\* rule i is the last documented rule of its path that shows the method
LastFor(i, method) ==
    \A j \in Documented :
        (/\ DocumentedPath(url_map[j].rule) = DocumentedPath(url_map[i].rule)
         /\ Shown(url_map[j], method)) => j <= i

Returned == call.op = "openapi" /\ ret.kind = "return"

\* some documented rule of the path of rule i shows the method
ShownByPath(i, method) ==
    \E j \in Documented :
        /\ DocumentedPath(url_map[j].rule) = DocumentedPath(url_map[i].rule)
        /\ Shown(url_map[j], method)

\* C8 as stated: every documented route has its own operation object under
\* every method it accepts, but for HEAD and a generated OPTIONS, which no
\* route puts there.
C8_EveryRouteKeepsItsOperation ==
    Returned =>
        \A i \in Documented :
            LET r == url_map[i]
                p == DocumentedPath(r.rule)
            IN /\ p \in DOMAIN ret.val.paths
               /\ \A m \in r.methods :
                     IF Shown(r, m)
                     THEN /\ MethodKey(m) \in DOMAIN ret.val.paths[p]
                          /\ ret.val.paths[p][MethodKey(m)] = OperationOf(r)
                     ELSE MethodKey(m) \in DOMAIN ret.val.paths[p] => ShownByPath(i, m)

\* C8 amended: under every method a documented route accepts, but for HEAD
\* and a generated OPTIONS, the method map of its path holds the operation
\* object of the last documented route of that path accepting the method;
\* no key is there that no route put there, so head never is.
C8_LastRouteWins ==
    Returned =>
        /\ \A i \in Documented :
              LET r == url_map[i]
                  p == DocumentedPath(r.rule)
              IN /\ p \in DOMAIN ret.val.paths
                 /\ \A m \in r.methods :
                       Shown(r, m) =>
                           /\ MethodKey(m) \in DOMAIN ret.val.paths[p]
                           /\ LastFor(i, m) => ret.val.paths[p][MethodKey(m)] = OperationOf(r)
        /\ \A p \in DOMAIN ret.val.paths :
              \A k \in DOMAIN ret.val.paths[p] :
                  /\ k # MethodKey(M_HEAD)
                  /\ \E i \in Documented :
                        /\ DocumentedPath(url_map[i].rule) = p
                        /\ \E m \in url_map[i].methods : Shown(url_map[i], m) /\ MethodKey(m) = k

\* C8 witness: two documented routes of one path both accept GET and the
\* later one's operation object is the one under get; its explicit OPTIONS
\* is shown too
C8_Witness ==
    /\ Returned
    /\ \E i, j \in Documented :
          /\ i < j
          /\ url_map[i].rule = P_x /\ url_map[j].rule = P_int_x
          /\ M_GET \in url_map[i].methods /\ M_GET \in url_map[j].methods
          /\ OperationOf(url_map[i]) # OperationOf(url_map[j])
          /\ ret.val.paths[<<"/", "{", "x", "}">>][<<"g", "e", "t">>] = OperationOf(url_map[j])
    /\ \E i \in Documented :
          /\ ~url_map[i].provide_automatic_options
          /\ MethodKey(M_OPTIONS) \in DOMAIN ret.val.paths[DocumentedPath(url_map[i].rule)]

\* the text before the first newline, and the text after it without one
\* closing newline
FirstLine(text) ==
    IF FirstIndexOf(text, "\n", 1) = 0 THEN text
    ELSE SubSeq(text, 1, FirstIndexOf(text, "\n", 1) - 1)

RestLines(text) ==
    LET nl == FirstIndexOf(text, "\n", 1)
        rest == IF nl = 0 THEN <<>> ELSE SubSeq(text, nl + 1, Len(text))
    IN IF rest # <<>> /\ rest[Len(rest)] = "\n" THEN SubSeq(rest, 1, Len(rest) - 1) ELSE rest

\* C10: openapi does not fail on a documentation string that is present,
\* the operation object of a handler that has one carries its first line as
\* summary and the other lines, joined by newlines, as description, and
\* that of a handler without one carries neither.
C10_DocstringSplit ==
    call.op = "openapi" =>
        /\ ret.kind = "return"
        /\ \A i \in Documented :
              \A m \in url_map[i].methods :
                  (Shown(url_map[i], m) /\ LastFor(i, m)) =>
                      LET doc == url_map[i].func.doc
                          op == ret.val.paths[DocumentedPath(url_map[i].rule)][MethodKey(m)]
                      IN IF doc.present
                         THEN /\ op.has_doc
                              /\ op.summary = FirstLine(doc.text)
                              /\ op.description = RestLines(doc.text)
                         ELSE ~op.has_doc


\* ---- components.schemas

\* the schemas of one handler in the order openapi splits them: the response
\* schemas, then the request schema, then the query string schema
SchemasOfFunc(func) ==
    [i \in DOMAIN func.response_schemas |-> func.response_schemas[i][2]]
        \o (IF func.request_schema.present THEN <<func.request_schema.schema>> ELSE <<>>)
        \o (IF func.querystring_schema.present THEN <<func.querystring_schema.schema>> ELSE <<>>)

\* the schemas of the documented rules from rule i on, in processing order
RECURSIVE SchemasProcessed(_, _)
SchemasProcessed(rules, i) ==
    IF i > Len(rules) THEN <<>>
    ELSE (IF HasMetadata(rules[i].func) THEN SchemasOfFunc(rules[i].func) ELSE <<>>)
            \o SchemasProcessed(rules, i + 1)

DefinitionsOf(schema) == IF schema.has_definitions THEN schema.definitions ELSE EmptyDict

\* the schema as the decorators attached it, but for its definitions
SameButDefinitions(attached, stored) ==
    /\ attached.title = stored.title
    /\ attached.properties = stored.properties
    /\ ~attached.has_definitions

\* C11: in the document returned, components.schemas has exactly the
\* definition names of the schemas processed, each name holds the definition
\* of the last schema in processing order that defines it, and the response
\* and request schemas of every operation are stored schemas without their
\* definitions.
C11_LastDefinitionWins ==
    Returned =>
        LET seq == SchemasProcessed(url_map, 1)
            schemas == ret.val.components.schemas
            paths == ret.val.paths
        IN /\ DOMAIN schemas = UNION {DOMAIN DefinitionsOf(seq[i]) : i \in DOMAIN seq}
           /\ \A name \in DOMAIN schemas :
                 \E i \in DOMAIN seq :
                    /\ name \in DOMAIN DefinitionsOf(seq[i])
                    /\ schemas[name] = DefinitionsOf(seq[i])[name]
                    /\ \A j \in DOMAIN seq : j > i => name \notin DOMAIN DefinitionsOf(seq[j])
           /\ \A p \in DOMAIN paths : \A k \in DOMAIN paths[p] :
                 /\ \A code \in DOMAIN paths[p][k].responses :
                       \E i \in DOMAIN seq :
                          SameButDefinitions(paths[p][k].responses[code], seq[i])
                 /\ paths[p][k].has_requestBody =>
                       \E i \in DOMAIN seq : SameButDefinitions(paths[p][k].requestBody, seq[i])

\* C11 witness: a name is defined differently by a schema of one route and
\* by a later schema of another, the later definition is the entry, and an
\* operation carries a schema whose definitions were split out
C11_Witness ==
    /\ Returned
    /\ LET seq == SchemasProcessed(url_map, 1)
       IN \E i, j \in DOMAIN seq :
             /\ i < j
             /\ "Sub" \in DOMAIN DefinitionsOf(seq[i]) /\ "Sub" \in DOMAIN DefinitionsOf(seq[j])
             /\ DefinitionsOf(seq[i])["Sub"] # DefinitionsOf(seq[j])["Sub"]
             /\ \A l \in DOMAIN seq : l > j => "Sub" \notin DOMAIN DefinitionsOf(seq[l])
             /\ ret.val.components.schemas["Sub"] = DefinitionsOf(seq[j])["Sub"]
    /\ \E i, j \in Documented : i # j
    /\ "Detail" \in DOMAIN ret.val.components.schemas
    /\ \E p \in DOMAIN ret.val.paths : \E k \in DOMAIN ret.val.paths[p] :
          ret.val.paths[p][k].has_requestBody


\* ------------------------------------------------- serving openapi requests

MaxRequests == 2

Requests == 1..MaxRequests

Idle == [pc |-> "idle", response |-> NotCalled]

\* the handler's metadata as one run of lines 198-222 leaves it
FuncAfter(func) ==
    LET responses == func.response_schemas
        request == func.request_schema
        query == func.querystring_schema
    IN [func EXCEPT
          !.response_schemas =
              [i \in DOMAIN responses |->
                  <<responses[i][1], split_definitions(responses[i][2])[3]>>],
          !.request_schema =
              IF request.present THEN Present(split_definitions(request.schema)[3])
              ELSE request,
          !.querystring_schema =
              IF query.present THEN Present(split_definitions(query.schema)[3])
              ELSE query]

\* app.url_map and app.view_functions as the loop of openapi leaves them from
\* rule i on; the loop ends at a rule whose documentation string has no line
RECURSIVE RulesAfter(_, _)
RulesAfter(rules, i) ==
    IF i > Len(rules) THEN rules
    ELSE IF ~HasMetadata(rules[i].func) THEN RulesAfter(rules, i + 1)
    ELSE IF rules[i].func.doc.present /\ Splitlines(rules[i].func.doc.text) = <<>> THEN rules
    ELSE RulesAfter([rules EXCEPT ![i].func = FuncAfter(rules[i].func)], i + 1)

\* the routes of the served application: one routing with every metadata and
\* the documentation strings of at most one character
ServedRules ==
    {r \in RuleCandidates :
        /\ r.rule = P_a
        /\ r.provide_automatic_options
        /\ M_GET \in r.methods
        /\ Len(r.func.doc.text) <= 1}

InitServe ==
    /\ PYDANTIC_INSTALLED = TRUE
    /\ MSGSPEC_INSTALLED = FALSE
    /\ instance_is_pydc = FALSE
    /\ config = DefaultConfig
    /\ url_map = OwnRules
    /\ call = [op |-> "startup"]
    /\ ret = NotCalled
    /\ requests = [r \in Requests |-> Idle]

\* @app.route before the application serves
Route ==
    /\ call.op = "startup"
    /\ Len(url_map) < Len(OwnRules) + MaxRules
    /\ \E r \in ServedRules : url_map' = Append(url_map, r)
    /\ UNCHANGED <<PYDANTIC_INSTALLED, MSGSPEC_INSTALLED, instance_is_pydc, config, call, ret,
                   requests>>

\* the application starts to serve; no route is added from here on
Run ==
    /\ call.op = "startup"
    /\ call' = [op |-> "serving"]
    /\ UNCHANGED <<PYDANTIC_INSTALLED, MSGSPEC_INSTALLED, instance_is_pydc, config, ret,
                   url_map, requests>>

\* a request for openapi_path arrives and its task is scheduled
Dispatch(r) ==
    /\ call.op = "serving"
    /\ requests[r].pc = "idle"
    /\ requests' = [requests EXCEPT ![r].pc = "scheduled"]
    /\ UNCHANGED <<PYDANTIC_INSTALLED, MSGSPEC_INSTALLED, instance_is_pydc, config, call, ret,
                   url_map>>

\* the event loop runs the openapi coroutine of request r; it has no await,
\* so it runs from its first line to its return without another task between
ServeOpenapi(r) ==
    /\ call.op = "serving"
    /\ requests[r].pc = "scheduled"
    /\ requests' = [requests EXCEPT ![r] =
                        [pc |-> "done", response |-> openapi(url_map, AppName, Version)]]
    /\ url_map' = RulesAfter(url_map, 1)
    /\ UNCHANGED <<PYDANTIC_INSTALLED, MSGSPEC_INSTALLED, instance_is_pydc, config, call, ret>>

NextServe ==
    \/ Route
    \/ Run
    \/ \E r \in Requests : Dispatch(r)
    \/ \E r \in Requests : ServeOpenapi(r)

SpecServe == InitServe /\ [][NextServe]_vars

Answered == {r \in Requests : requests[r].pc = "done"}

\* every request answered so far got the same document (or the same error)
SameAnswers == \A r1, r2 \in Answered : requests[r1].response = requests[r2].response

\* C12: once the application serves, no step changes the rules or the
\* schema metadata of their handlers, whatever the order in which requests
\* for the document arrive and are run, and all the requests answered got
\* equal documents.
C12_OpenapiReadOnly ==
    /\ []SameAnswers
    /\ [][call.op = "serving" => url_map' = url_map]_vars

\* C12 witness: every request has been answered with a document whose
\* components came out of the schemas of two routes, and those schemas still
\* carry their definitions
C12_Witness ==
    /\ Answered = Requests
    /\ \A r \in Requests :
          /\ requests[r].response.kind = "return"
          /\ "Sub" \in DOMAIN requests[r].response.val.components.schemas
    /\ \E i, j \in DOMAIN url_map :
          /\ i # j
          /\ \E k \in DOMAIN url_map[i].func.response_schemas :
                url_map[i].func.response_schemas[k][2].has_definitions
          /\ url_map[j].func.request_schema.present
          /\ url_map[j].func.request_schema.schema.has_definitions

====
